---- MODULE Spec2Model ----
(***************************************************************************)
(* Access-control core of tevas.io: team membership and roles, invitations,*)
(* refresh-token issuance and the request-time session resolver, as state  *)
(* machines over the rows of the relational store.                         *)
(***************************************************************************)
EXTENDS Integers, Sequences, FiniteSets, Bags, TLC

\* ------------------------------------------------------------------ bounds
NumUsers == 3
NumTeams == 1
MaxInvitations == 1
MaxReqUsers == 2
MaxTime == 61
TtlSec == 60
NumAccounts == 2
NumRequests == 3
NumSessionLogins == 2
NumPasswords == 2
NumEmails == 3
NumCodes == 2
RecursionLimit == 3
MaxRoleInput == 4
NumIssues == 2
NumLogins == 2          \* login values a request can ask for
NumRegistrations == 2   \* registration and login change requests in flight

\* settings.py
access_token_expire_minutes == 15
refresh_token_expire_days == 180
\* crud.get_verification_code
verification_code_minutes == 15

Users == 1..NumUsers
TeamIds == 1..NumTeams
InvIds == 1..MaxInvitations
Accounts == 1..NumAccounts
Requests == 1..NumRequests
Passwords == 1..NumPasswords
Emails == 1..NumEmails
Codes == 1..NumCodes
Issues == 1..NumIssues
Logins == 1..NumLogins
Registrations == 1..NumRegistrations
\* 0 = read, 1 = edit, 2 = admin, 3 = creator (schema.py:16)
Roles == 0..3
\* role_id: int in the request schemas: any integer a caller sends
RoleInputs == -1..MaxRoleInput
\* the instants at which the clock is read
TimePoints == {p \in {0, 1, TtlSec - 1, TtlSec, TtlSec + 1} : p <= MaxTime}

\* Optional values: Python None is the empty sequence, a value x is <<x>>.
None == <<>>
Some(x) == <<x>>

VARIABLES
    teams,        \* ids of the rows of table teams
    team_rows,    \* team id -> [title, status_id] of its row, or None
    nextTeam,     \* next fresh team id (uuid4 never repeats)
    creating,     \* create_team calls between their two commits
    links,        \* bag of the rows of user_team_links: [user, team, role]
    invitations,  \* invitation id -> row, or None
    nextInv,      \* next fresh invitation id
    now,          \* wall clock, seconds
    last,         \* the call that completed last and its outcome
    users,        \* user id -> status_id of the row of table users, or None
    refresh_tokens, \* rows of table refresh_tokens: [id, user_id, created_dt, ttl_sec]
    logins,       \* login request -> its position in login_user and its locals
    reply,        \* the protected request resolved last and its outcome
    emails,       \* user id -> email of the row of table users, or None
    passwords,    \* user id -> what column password of the row holds, or None
    codes,        \* rows of table user_verification_codes
    nextCode,     \* next fresh row id of user_verification_codes
    issuing,      \* code request -> its position in create_verification_code
    vcall,        \* the account or code request answered last and its outcome
    user_logins,  \* user id -> login of the row of table users, or None
    registering,  \* registration or settings request -> its position and locals
    rcall,        \* the registration or login change answered last and its outcome
    reading       \* the get_team call in flight: its position and what it read

teamVars == <<teams, team_rows, nextTeam, creating, links, invitations, nextInv, last,
              reading>>
authVars == <<users, refresh_tokens, logins, reply>>
codeVars == <<emails, passwords, codes, nextCode, issuing, vcall>>
regVars == <<user_logins, registering, rcall>>
vars == <<teams, team_rows, nextTeam, creating, links, invitations, nextInv, now, last,
          users, refresh_tokens, logins, reply,
          emails, passwords, codes, nextCode, issuing, vcall,
          user_logins, registering, rcall, reading>>

NoCall ==
    [op |-> "none", outcome |-> "none", caller |-> 0, team |-> 0, target |-> 0,
     role |-> 0, inv |-> 0, callerRole |-> None, targetRole |-> None, age |-> 0,
     req |-> None]

Call(op, outcome, caller, team, target, role, inv, callerRole, targetRole, age) ==
    [op |-> op, outcome |-> outcome, caller |-> caller, team |-> team,
     target |-> target, role |-> role, inv |-> inv, callerRole |-> callerRole,
     targetRole |-> targetRole, age |-> age, req |-> None]

\* ------------------------------------------------------------- store rows
UserTeamLink(u, t, r) == [user |-> u, team |-> t, role |-> r]
\* the columns of a row of table teams a request can set
Team(title, status_id) == [title |-> title, status_id |-> status_id]

Invitation(t, r, u, ttl, created) ==
    [team_id |-> t, role_id |-> r, inviting_user_id |-> u, is_active |-> TRUE,
     users_accepted |-> 0, ttl_sec |-> ttl, created_dt |-> created]

LinkRows == BagToSet(links)
LinksOf(u, t) == {l \in LinkRows : l.user = u /\ l.team = t}
LinksOfTeam(t) == {l \in LinkRows : l.team = t}
LinkCount(u, t) ==
    LET S == LinksOf(u, t)
        RECURSIVE Sum(_)
        Sum(X) == IF X = {} THEN 0
                  ELSE LET l == CHOOSE l \in X : TRUE
                       IN CopiesIn(l, links) + Sum(X \ {l})
    IN Sum(S)
OwnerCount(t) ==
    LET S == {l \in LinksOfTeam(t) : l.role = 3}
        RECURSIVE Sum(_)
        Sum(X) == IF X = {} THEN 0
                  ELSE LET l == CHOOSE l \in X : TRUE
                       IN CopiesIn(l, links) + Sum(X \ {l})
    IN Sum(S)

\* the rows of a team removed (ON DELETE CASCADE, delete(UserTeamLink).where(team_id))
WithoutTeam(b, t) ==
    LET keep == {l \in BagToSet(b) : l.team # t}
    IN [l \in keep |-> b[l]]

\* select(UserTeamLink.role).where(user_id, team_id) ... result.scalar():
\* the role column of the first row, an int, or None when there is no row.
\* With several rows for the pair the store returns any of them first.
get_user_role_in_team(u, t) ==
    IF LinksOf(u, t) = {} THEN {None}
    ELSE {Some(l.role) : l \in LinksOf(u, t)}

\* Python attribute access v.role on the value get_user_role_in_team returned:
\* v is an int or None, neither has an attribute "role", so the access raises
\* AttributeError.
AttrRoleOfLink(v) ==
    IF v = None THEN [raises |-> TRUE, value |-> None]
    ELSE [raises |-> FALSE, value |-> v]
AttrRole(v) == [raises |-> TRUE, value |-> None]

get_invitation_by_id(i) == invitations[i]

\* (datetime.now(timezone.utc) - invitation.created_dt).total_seconds()
Age(inv) == now - inv.created_dt

\* ------------------------------------------------- users, refresh tokens
NoLogin == [pc |-> "idle", user |-> 0, old_token |-> None, known |-> FALSE, wrong |-> FALSE]
NoIssue == [pc |-> "idle", user |-> 0, code |-> 0, existing |-> FALSE, via |-> "none"]
NoVCall ==
    [op |-> "none", outcome |-> "none", user |-> 0, code |-> 0, email |-> None,
     existing |-> FALSE, ages |-> {}, at |-> 0]
VCall(op, outcome, user, code, email, existing, ages) ==
    [op |-> op, outcome |-> outcome, user |-> user, code |-> code, email |-> email,
     existing |-> existing, ages |-> ages, at |-> now]
NoRead == [pc |-> "idle", team |-> 0, row |-> None, before |-> None, users |-> None]
NoRegistration == [pc |-> "idle", user |-> 0, login |-> 0, email |-> 0]
NoRCall ==
    [op |-> "none", outcome |-> "none", status |-> 0, user |-> 0, login |-> 0,
     email |-> 0, taken |-> FALSE, changed |-> FALSE]
\* taken: when the call was answered another row of users held the login or
\* the email it asked for; changed: the call changed a row of users
RCall(op, outcome, status, user, login, email, taken, changed) ==
    [op |-> op, outcome |-> outcome, status |-> status, user |-> user,
     login |-> login, email |-> email, taken |-> taken, changed |-> changed]
NoReply ==
    [outcome |-> "none", user |-> 0, cookie |-> None, token |-> "none", sub |-> 0,
     verify |-> FALSE, status |-> None, live |-> FALSE, lookups |-> 0]

InitAuth ==
    /\ users = [u \in Accounts |-> None]
    /\ refresh_tokens = {}
    /\ logins = [r \in Requests |-> NoLogin]
    /\ reply = NoReply
    /\ emails = [u \in Accounts |-> None]
    /\ passwords = [u \in Accounts |-> None]
    /\ codes = {}
    /\ nextCode = 1
    /\ issuing = [q \in Issues |-> NoIssue]
    /\ vcall = NoVCall
    /\ user_logins = [u \in Accounts |-> None]
    /\ registering = [q \in Registrations |-> NoRegistration]
    /\ rcall = NoRCall

\* timedelta(days=settings.refresh_token_expire_days).total_seconds()
RefreshTtl == refresh_token_expire_days * 86400
\* timedelta(minutes=settings.access_token_expire_minutes), in seconds
AccessTtl == access_token_expire_minutes * 60

RefreshToken(id, u, created) ==
    [id |-> id, user_id |-> u, created_dt |-> created, ttl_sec |-> RefreshTtl]

\* password.get_password_hash and what update_user_password stores instead
get_password_hash(password) == [hashed |-> TRUE, of |-> password]
Plaintext(password) == [hashed |-> FALSE, of |-> password]

\* a verification that takes any stored value for a hash of itself
verify_password_lenient(plain_password, stored) ==
    [raises |-> FALSE, ok |-> stored.of = plain_password]

\* password.verify_password: pwd_context.verify on a stored value that is no
\* bcrypt hash raises passlib's UnknownHashError
verify_password(plain_password, stored) ==
    IF ~stored.hashed THEN [raises |-> TRUE, ok |-> FALSE]
    ELSE [raises |-> FALSE, ok |-> stored.of = plain_password]

\* crud.create_user: the row takes the column default status_id = 0, the
\* login and the email of the request (account u registers with login u and
\* email u) and the hash of its password (password 1)
create_user(u) ==
    /\ users[u] = None
    /\ users' = [users EXCEPT ![u] = Some(0)]
    /\ emails' = [emails EXCEPT ![u] = Some(u)]
    /\ passwords' = [passwords EXCEPT ![u] = Some(get_password_hash(1))]
    /\ user_logins' = [user_logins EXCEPT ![u] = Some(u)]
    /\ UNCHANGED <<registering, rcall, codes, nextCode, issuing, vcall, teamVars, now, refresh_tokens,
                   logins, reply>>

\* crud.update_user_status(db, user, 1), as POST /user/verify calls it
update_user_status(u, status_id) ==
    /\ users[u] # None
    /\ users' = [users EXCEPT ![u] = Some(status_id)]
    /\ UNCHANGED <<regVars, codeVars, teamVars, now, refresh_tokens, logins, reply>>

TokensOf(u) == {t \in refresh_tokens : t.user_id = u}

\* refresh_token.created_dt + timedelta(seconds=ttl_sec) > datetime.now()
IsLive(t) == t.created_dt + t.ttl_sec > now

\* crud.get_active_refresh_token: the first row of the user (any of them when
\* there are several). A live row is returned. For an expired row the function
\* calls delete_refresh_token_for_user, whose select(...).delete() raises
\* AttributeError (a Select has no delete), so nothing is deleted.
\* The set of possible results: [raises, row].
get_active_refresh_token(u) ==
    IF TokensOf(u) = {} THEN {[raises |-> FALSE, row |-> None]}
    ELSE {IF IsLive(t) THEN [raises |-> FALSE, row |-> Some(t)]
                       ELSE [raises |-> TRUE, row |-> None] : t \in TokensOf(u)}

\* --------------------------------------------------------------- login
\* utils.authenticate_user for the account u (found by login or by email)
\* and a password: "InvalidCredentials" is the 401, "UnknownHashError" the
\* exception of verify_password, "OK" the user
authenticate_user(u, password) ==
    IF users[u] = None THEN "InvalidCredentials"
    ELSE LET v == verify_password(password, passwords[u][1]) IN
         IF v.raises THEN "UnknownHashError"
         ELSE IF ~v.ok THEN "InvalidCredentials"
         ELSE "OK"

\* POST /user/auth, one action per commit: authenticate_user and the commit
\* of last_login_dt. The request keeps whether the account existed and
\* whether the password was not the account's.
login_authenticate(r, u, password) ==
    /\ logins[r].pc = "idle"
    /\ LET a == authenticate_user(u, password) IN
       logins' = [logins EXCEPT ![r] =
           [pc |-> IF a = "OK" THEN "read"
                   ELSE IF a = "InvalidCredentials" THEN "invalid_credentials"
                   ELSE "error",
            user |-> u, old_token |-> None,
            known |-> users[u] # None,
            wrong |-> users[u] # None /\ passwords[u][1].of # password]]
    /\ UNCHANGED <<regVars, codeVars, teamVars, now, users, refresh_tokens, reply>>

\* create_and_store_refresh_token: old_token = get_active_refresh_token(...)
login_read_old(r) ==
    /\ logins[r].pc = "read"
    /\ \E got \in get_active_refresh_token(logins[r].user) :
           logins' = [logins EXCEPT
               ![r].pc = IF got.raises THEN "error"
                         ELSE IF got.row = None THEN "insert" ELSE "delete",
               ![r].old_token = got.row]
    /\ UNCHANGED <<regVars, codeVars, teamVars, now, users, refresh_tokens, reply>>

\* a refresh token issue that leaves the old row where it is
login_delete_old_kept(r) ==
    /\ logins[r].pc = "delete"
    /\ logins' = [logins EXCEPT ![r].pc = "insert"]
    /\ UNCHANGED <<regVars, codeVars, teamVars, now, users, refresh_tokens, reply>>

\* db.delete(old_token); commit. A row another request deleted meanwhile
\* matches nothing and the commit goes through.
login_delete_old(r) ==
    /\ logins[r].pc = "delete"
    /\ refresh_tokens' = refresh_tokens \ {logins[r].old_token[1]}
    /\ logins' = [logins EXCEPT ![r].pc = "insert"]
    /\ UNCHANGED <<regVars, codeVars, teamVars, now, users, reply>>

\* db.add(RefreshToken(...)); commit; the cookie is set and the call returns
login_insert_new(r) ==
    /\ logins[r].pc = "insert"
    /\ refresh_tokens' = refresh_tokens \cup {RefreshToken(r, logins[r].user, now)}
    /\ logins' = [logins EXCEPT ![r].pc = "done"]
    /\ UNCHANGED <<regVars, codeVars, teamVars, now, users, reply>>

\* POST /user/auth by a client that waits for the answer to its last login
\* before it sends the next: no other login is between its commits
login_sequential(r, u, password) ==
    /\ \A q \in Requests : logins[q].pc \in {"idle", "done", "invalid_credentials", "error"}
    /\ login_authenticate(r, u, password)

\* ------------------------------------------------------ session resolver
\* An access token as jose sees it: its subject claim, its exp claim and
\* whether its signature verifies under settings.secret_key.
AccessToken(sub, exp, sig) == [sub |-> sub, exp |-> exp, sig |-> sig]

\* the instants at which the session clock is read
SessionPoints == {0, 1, AccessTtl + 1, RefreshTtl, RefreshTtl + 1}

\* jwt.create_access_token: subject user_id, exp = now + 15 min, signed
create_access_token(user_id) == AccessToken(user_id, now + AccessTtl, TRUE)

\* jwt.verify_token(token, verify): jose checks the signature first, then,
\* when verify_exp is set, the exp claim (expired when exp < now).
\* a decoder that does not check the signature
verify_token_unsigned(token, verify) ==
    IF verify /\ token.exp < now
    THEN [raises |-> "ExpiredSignatureError", payload |-> None]
    ELSE [raises |-> "none", payload |-> Some([sub |-> token.sub])]
verify_token(token, verify) ==
    IF ~token.sig THEN [raises |-> "JWTError", payload |-> None]
    ELSE IF verify /\ token.exp < now
    THEN [raises |-> "ExpiredSignatureError", payload |-> None]
    ELSE [raises |-> "none", payload |-> Some([sub |-> token.sub])]

\* crud.get_user_by_id
get_user_by_id(user_id) == IF user_id \in Accounts THEN users[user_id] ELSE None

\* a status gate without the check of lines 107-111
StatusGateWithoutBan(user_id, verify) ==
    LET user == get_user_by_id(user_id) IN
    IF user = None THEN "UserNotFound"
    ELSE IF user[1] = 0 /\ ~verify THEN "NotVerified"
    ELSE "Authorized"

\* lines 100-119 of get_current_user: the user lookup and the status gate
StatusGate(user_id, verify) ==
    LET user == get_user_by_id(user_id) IN
    IF user = None THEN "UserNotFound"
    ELSE IF user[1] = -1 THEN "Banned"
    ELSE IF user[1] = 0 /\ ~verify THEN "NotVerified"
    ELSE "Authorized"

\* what the request carried, as the resolver classifies it
TokenKind(token) ==
    IF token = None THEN "none"
    ELSE IF ~token[1].sig THEN "bad_signature"
    ELSE IF token[1].exp < now THEN "expired"
    ELSE "valid"

\* The answer of the resolver to a request. The new cookie reaches the client
\* only when the request is answered normally. reply keeps, with the outcome,
\* what held when the request was resolved: the kind of token, its subject,
\* the subject's status, whether the subject had a live refresh-token row, and
\* how many store lookups (get_user_by_id, get_active_refresh_token) were made.
\* a resolver that stores a refresh token row whenever it renews
Answer_rotating(token, verify, outcome, user_id, cookie, lookups) ==
    LET sub == IF token = None THEN 0 ELSE token[1].sub IN
    /\ reply' = [outcome |-> outcome, user |-> user_id,
                 cookie |-> IF outcome = "Authorized" THEN cookie ELSE None,
                 token |-> TokenKind(token), sub |-> sub, verify |-> verify,
                 status |-> get_user_by_id(sub),
                 live |-> \E t \in TokensOf(sub) : IsLive(t),
                 lookups |-> lookups]
    /\ refresh_tokens' = IF outcome = "Authorized" /\ cookie # None
                         THEN refresh_tokens \cup {RefreshToken(0, user_id, now)}
                         ELSE refresh_tokens
    /\ UNCHANGED <<regVars, codeVars, teamVars, now, users, logins>>
Answer(token, verify, outcome, user_id, cookie, lookups) ==
    LET sub == IF token = None THEN 0 ELSE token[1].sub IN
    /\ reply' = [outcome |-> outcome, user |-> user_id,
                 cookie |-> IF outcome = "Authorized" THEN cookie ELSE None,
                 token |-> TokenKind(token), sub |-> sub, verify |-> verify,
                 status |-> get_user_by_id(sub),
                 live |-> \E t \in TokensOf(sub) : IsLive(t),
                 lookups |-> lookups]
    /\ UNCHANGED <<regVars, codeVars, teamVars, now, users, refresh_tokens, logins>>

\* get_current_user from line 38 on, for a request that carries a cookie
resolve_token(token, verify) ==
    LET first == verify_token(token[1], TRUE) IN
    IF first.raises = "none"
    THEN Answer(token, verify, StatusGate(first.payload[1].sub, verify),
                first.payload[1].sub, None, 1)
    ELSE IF first.raises = "ExpiredSignatureError"
    THEN LET second == verify_token(token[1], FALSE) IN
         IF second.raises # "none" THEN Answer(token, verify, "InvalidToken", 0, None, 0)
         ELSE
         LET user_id == second.payload[1].sub IN
         IF get_user_by_id(user_id) = None
         THEN Answer(token, verify, "UserNotFound", user_id, None, 1)
         ELSE \E got \in get_active_refresh_token(user_id) :
                  IF got.raises THEN Answer(token, verify, "AttributeError", user_id, None, 2)
                  ELSE IF got.row = None
                  THEN Answer(token, verify, "NoRefreshToken", user_id, None, 2)
                  ELSE Answer(token, verify, StatusGate(user_id, verify), user_id,
                              Some(create_access_token(user_id)), 3)
    ELSE Answer(token, verify, "InvalidToken", 0, None, 0)

\* a resolver without the check of lines 32-36: the absent cookie goes to
\* verify_token, which cannot decode it
get_current_user_unguarded(token, verify) ==
    IF token = None THEN Answer(token, verify, "InvalidToken", 0, None, 0)
    ELSE resolve_token(token, verify)

\* dependency.get_current_user for a request carrying the cookie `token`
\* (None: no cookie) on a path that contains "verify" or not
get_current_user(token, verify) ==
    IF token = None THEN Answer(token, verify, "NoToken", 0, None, 0)
    ELSE resolve_token(token, verify)

SessionTick ==
    \E p \in SessionPoints :
        /\ p > now
        /\ now' = p
        /\ UNCHANGED <<regVars, codeVars, teamVars, authVars>>

\* the tokens a request may carry: signed ones issued at an earlier instant
\* to any subject, and ones whose signature does not verify
RequestTokens ==
    {None}
    \cup {Some(AccessToken(u, p + AccessTtl, TRUE)) :
              u \in Accounts, p \in {q \in SessionPoints : q <= now}}
    \cup {Some(AccessToken(u, p, FALSE)) : u \in Accounts, p \in {0, now + AccessTtl}}

\* ------------------------------------------------------ verification codes
\* timedelta(minutes=15) of crud.get_verification_code, in seconds
CodeWindow == verification_code_minutes * 60

\* the instants at which the clock of the code requests is read
CodePoints == {0, CodeWindow - 1, CodeWindow, CodeWindow + 1, 2 * CodeWindow}

\* a row of user_verification_codes
UserVerificationCode(id, user_id, email, code, created_dt) ==
    [id |-> id, user_id |-> user_id, email |-> email, code |-> code,
     created_dt |-> created_dt, updated_dt |-> created_dt]

CodesOf(u) == {c \in codes : c.user_id = u}

\* crud.get_user_by_email: the users whose row holds this email
get_user_by_email(email) == {u \in Accounts : emails[u] = Some(email)}

\* crud.check_verification_code_exist: some row holds this code, unexpired
check_verification_code_exist(code) ==
    \E c \in codes : c.code = code /\ c.created_dt > now - CodeWindow

\* crud.get_user_by_code: the users owning a row with this code
get_user_by_code(code) == {c.user_id : c \in {x \in codes : x.code = code}}

RECURSIVE generate_verification_code_in_order(_)
\* a recursive call with the arguments in the order of the signature: it
\* draws again, and again on the next collision, until the interpreter's
\* recursion limit ends it
generate_verification_code_in_order(depth) ==
    IF depth > RecursionLimit THEN {[raises |-> TRUE, code |-> 0, depth |-> depth]}
    ELSE UNION {IF check_verification_code_exist(code)
                THEN generate_verification_code_in_order(depth + 1)
                ELSE {[raises |-> FALSE, code |-> code, depth |-> depth]} : code \in Codes}
\* utils.generate_verification_code, line 90, the call of depth `depth`:
\* generate_verification_code(length, db) puts the arguments in the wrong
\* places, and random.choices(..., k=db) raises TypeError before any draw
generate_verification_code_again(depth) ==
    {[raises |-> TRUE, code |-> 0, depth |-> depth]}

\* utils.generate_verification_code: a random draw; on a collision the
\* function calls itself. The set of possible results, each with the depth of
\* the call that ended the generation.
generate_verification_code ==
    UNION {IF check_verification_code_exist(code)
           THEN generate_verification_code_again(2)
           ELSE {[raises |-> FALSE, code |-> code, depth |-> 1]} : code \in Codes}

\* a lookup that filters on created_dt, the column the model declares
get_verification_code_by_created_dt(user_id, code) ==
    LET found == {c \in CodesOf(user_id) :
                      c.code = code /\ c.created_dt > now - CodeWindow} IN
    IF found = {} THEN {[raises |-> FALSE, row |-> None]}
    ELSE IF Cardinality(found) > 1 THEN {[raises |-> TRUE, row |-> None]}
    ELSE {[raises |-> FALSE, row |-> Some(c)] : c \in found}

\* crud.get_verification_code: the filter names UserVerificationCode.created_at,
\* an attribute the mapped class does not have (its column is created_dt), so
\* building the query raises AttributeError. The set of possible results.
get_verification_code(user_id, code) == {[raises |-> TRUE, row |-> None]}

\* what a confirmation request found in the store for (user, code): the ages
\* of the rows of the user that hold the code
AgesOf(u, code) == {now - c.created_dt : c \in {x \in CodesOf(u) : x.code = code}}

\* create_verification_code, lines 159-162, after the code was generated:
\* POST /user/verify/send for the current user u (any status but banned) or
\* POST /user/password/reset/send for the user found by email
issue_read(q, u, via) ==
    /\ issuing[q].pc = "idle"
    /\ users[u] # None
    /\ via = "verify_send" => users[u] # Some(-1)
    /\ \E g \in generate_verification_code :
           issuing' = [issuing EXCEPT ![q] =
               [pc |-> IF g.raises \/ Cardinality(CodesOf(u)) > 1 THEN "error" ELSE "write",
                user |-> u, code |-> g.code, existing |-> CodesOf(u) # {}, via |-> via]]
    /\ UNCHANGED <<regVars, emails, passwords, codes, nextCode, vcall, teamVars, authVars, now>>

\* create_verification_code, lines 164-176: update the rows of the user with
\* the new code (updated_dt follows by onupdate, created_dt stays), or insert
\* a row; commit
issue_write(q) ==
    /\ issuing[q].pc = "write"
    /\ LET u == issuing[q].user
           code == issuing[q].code IN
       /\ IF issuing[q].existing
          THEN /\ codes' = (codes \ CodesOf(u)) \cup
                       {[c EXCEPT !.code = code, !.updated_dt = now] : c \in CodesOf(u)}
               /\ UNCHANGED nextCode
          ELSE /\ codes' = codes \cup {UserVerificationCode(nextCode, u, None, code, now)}
               /\ nextCode' = nextCode + 1
       /\ vcall' = VCall(issuing[q].via, "OK", u, code, None, issuing[q].existing, {})
    /\ issuing' = [issuing EXCEPT ![q].pc = "done"]
    /\ UNCHANGED <<regVars, emails, passwords, teamVars, authVars, now>>

\* POST /user/verify by the current user u (any status but banned)
verify_user(u, code) ==
    /\ users[u] # None /\ users[u] # Some(-1)
    /\ \E g \in get_verification_code(u, code) :
           IF g.raises
           THEN /\ vcall' = VCall("verify", "AttributeError", u, code, None, FALSE, AgesOf(u, code))
                /\ UNCHANGED users
           ELSE IF g.row = None
           THEN /\ vcall' = VCall("verify", "InvalidOrExpired", u, code, None, FALSE, AgesOf(u, code))
                /\ UNCHANGED users
           ELSE /\ vcall' = VCall("verify", "OK", u, code, None, FALSE, AgesOf(u, code))
                /\ users' = [users EXCEPT ![u] = Some(1)]
    /\ UNCHANGED <<regVars, emails, passwords, codes, nextCode, issuing, teamVars, now,
                   refresh_tokens, logins, reply>>

\* POST /user/password/reset: the user is found by the code alone
reset_password(code, new_password) ==
    /\ IF get_user_by_code(code) = {}
       THEN /\ vcall' = VCall("reset_password", "UserNotFound", 0, code, None, FALSE, {})
            /\ UNCHANGED passwords
       ELSE \E u \in get_user_by_code(code) : \E g \in get_verification_code(u, code) :
           IF g.raises
           THEN /\ vcall' = VCall("reset_password", "AttributeError", u, code, None, FALSE,
                                  AgesOf(u, code))
                /\ UNCHANGED passwords
           ELSE IF g.row = None
           THEN /\ vcall' = VCall("reset_password", "InvalidOrExpired", u, code, None, FALSE,
                                  AgesOf(u, code))
                /\ UNCHANGED passwords
           ELSE /\ vcall' = VCall("reset_password", "OK", u, code, None, FALSE, AgesOf(u, code))
                /\ passwords' = [passwords EXCEPT ![u] = Some(Plaintext(new_password))]
    /\ UNCHANGED <<regVars, emails, codes, nextCode, issuing, teamVars, authVars, now>>

\* a settings update that stores the new email at once, unconfirmed
update_user_settings_unconfirmed(u, email, password, current_password) ==
    /\ users[u] = Some(1)
    /\ vcall' = VCall("update_user_settings", "OK", u, 0, email, FALSE, {})
    /\ emails' = [emails EXCEPT ![u] = IF email # None THEN email ELSE @]
    /\ UNCHANGED <<regVars, passwords, codes, nextCode, issuing, teamVars, authVars, now>>

\* PATCH /user/settings by the current user u (verified: the path is not
\* verify-exempt), with the optional fields email, password and
\* current_password of UserUpdate. A new email goes to
\* create_verification_code(db, id, code, email=...), a keyword the function
\* does not take: TypeError, whether or not the code generation raised first.
update_user_settings(u, email, password, current_password) ==
    /\ users[u] = Some(1)
    /\ IF email # None /\ email # emails[u]
       THEN /\ vcall' = VCall("update_user_settings",
                              IF get_user_by_email(email[1]) # {} THEN "EmailExists"
                              ELSE "TypeError",
                              u, 0, email, FALSE, {})
            /\ UNCHANGED passwords
       ELSE IF password # None /\ current_password # None
       THEN LET a == authenticate_user(u, current_password[1]) IN
            /\ vcall' = VCall("update_user_settings", a, u, 0, email, FALSE, {})
            /\ IF a = "OK"
               THEN passwords' = [passwords EXCEPT ![u] = Some(Plaintext(password[1]))]
               ELSE UNCHANGED passwords
       ELSE /\ vcall' = VCall("update_user_settings", "OK", u, 0, email, FALSE, {})
            /\ UNCHANGED passwords
    /\ UNCHANGED <<regVars, emails, codes, nextCode, issuing, teamVars, authVars, now>>

\* POST /user/settings/email/confirm by the current user u (verified)
confirm_new_email(u, code) ==
    /\ users[u] = Some(1)
    /\ \E g \in get_verification_code(u, code) :
           IF g.raises
           THEN /\ vcall' = VCall("confirm_new_email", "AttributeError", u, code, None,
                                  FALSE, AgesOf(u, code))
                /\ UNCHANGED emails
           ELSE IF g.row = None
           THEN /\ vcall' = VCall("confirm_new_email", "InvalidOrExpired", u, code, None,
                                  FALSE, AgesOf(u, code))
                /\ UNCHANGED emails
           ELSE /\ vcall' = VCall("confirm_new_email", "OK", u, code, g.row[1].email,
                                  FALSE, AgesOf(u, code))
                /\ emails' = [emails EXCEPT ![u] = g.row[1].email]
    /\ UNCHANGED <<regVars, passwords, codes, nextCode, issuing, teamVars, authVars, now>>

\* ------------------------------------------- registration, login change
\* crud.get_user_by_login: the rows of users with this login
get_user_by_login(login) == {u \in Accounts : user_logins[u] = Some(login)}

\* POST /user up to its call of create_user: the two lookups and their 400s
register_user(q, login, email) ==
    /\ registering[q].pc = "idle"
    /\ IF get_user_by_login(login) # {}
       THEN /\ rcall' = RCall("register_user", "LoginExists", 400, 0, login, email,
                              TRUE, FALSE)
            /\ UNCHANGED registering
       ELSE IF get_user_by_email(email) # {}
       THEN /\ rcall' = RCall("register_user", "EmailExists", 400, 0, login, email,
                              TRUE, FALSE)
            /\ UNCHANGED registering
       ELSE /\ registering' = [registering EXCEPT ![q] =
                                   [pc |-> "create_user", user |-> 0,
                                    login |-> login, email |-> email]]
            /\ UNCHANGED rcall
    /\ UNCHANGED <<user_logins, codeVars, teamVars, authVars, now>>

\* crud.create_user as register_user calls it: the INSERT runs under the unique
\* constraints of users.login and users.email, and the row gives no first_name
\* or last_name. Where the table has these columns NOT NULL (the model class)
\* the INSERT is refused; the migration creates the table without them.
register_create_user(q) ==
    /\ registering[q].pc = "create_user"
    /\ registering' = [registering EXCEPT ![q] = NoRegistration]
    /\ LET r == registering[q]
           taken == get_user_by_login(r.login) # {} \/ get_user_by_email(r.email) # {}
       IN  \E not_null \in BOOLEAN :
           IF taken \/ not_null
           THEN /\ rcall' = RCall("register_user", "IntegrityError", 500, 0, r.login,
                                  r.email, taken, FALSE)
                /\ UNCHANGED <<users, user_logins, emails, passwords>>
           ELSE \E u \in Accounts :
                /\ users[u] = None
                /\ \A v \in Accounts : users[v] = None => u <= v
                /\ users' = [users EXCEPT ![u] = Some(0)]
                /\ user_logins' = [user_logins EXCEPT ![u] = Some(r.login)]
                /\ emails' = [emails EXCEPT ![u] = Some(r.email)]
                /\ passwords' = [passwords EXCEPT ![u] = Some(get_password_hash(1))]
                /\ rcall' = RCall("register_user", "Created", 201, u, r.login, r.email,
                                  FALSE, TRUE)
    /\ UNCHANGED <<codes, nextCode, issuing, vcall, teamVars, now, refresh_tokens,
                   logins, reply>>

\* PATCH /user/settings by the current user u (verified) with a login only, up
\* to its commit: the lookup of the new login and its 400
update_user_login(q, u, login) ==
    /\ registering[q].pc = "idle"
    /\ users[u] = Some(1)
    /\ IF user_logins[u] = Some(login)
       THEN /\ rcall' = RCall("update_user_settings", "OK", 200, u, login, 0,
                              FALSE, FALSE)
            /\ UNCHANGED registering
       ELSE IF get_user_by_login(login) # {}
       THEN /\ rcall' = RCall("update_user_settings", "LoginExists", 400, u, login, 0,
                              TRUE, FALSE)
            /\ UNCHANGED registering
       ELSE /\ registering' = [registering EXCEPT ![q] =
                                   [pc |-> "commit", user |-> u,
                                    login |-> login, email |-> 0]]
            /\ UNCHANGED rcall
    /\ UNCHANGED <<user_logins, codeVars, teamVars, authVars, now>>

\* its db.commit(): the UPDATE runs under the unique constraint of users.login
update_user_login_commit(q) ==
    /\ registering[q].pc = "commit"
    /\ registering' = [registering EXCEPT ![q] = NoRegistration]
    /\ LET r == registering[q]
           taken == get_user_by_login(r.login) \ {r.user} # {}
       IN  IF taken
           THEN /\ rcall' = RCall("update_user_settings", "IntegrityError", 500, r.user,
                                  r.login, 0, TRUE, FALSE)
                /\ UNCHANGED user_logins
           ELSE /\ user_logins' = [user_logins EXCEPT ![r.user] = Some(r.login)]
                /\ rcall' = RCall("update_user_settings", "OK", 200, r.user, r.login, 0,
                                  FALSE, TRUE)
    /\ UNCHANGED <<codeVars, teamVars, authVars, now>>

CodeTick ==
    \E p \in CodePoints :
        /\ p > now
        /\ now' = p
        /\ UNCHANGED <<regVars, codeVars, teamVars, authVars>>

\* ---------------------------------------------------------------- Init
InitTeams ==
    /\ teams = {}
    /\ team_rows = [t \in TeamIds |-> None]
    /\ nextTeam = 1
    /\ creating = {}
    /\ links = EmptyBag
    /\ invitations = [i \in InvIds |-> None]
    /\ nextInv = 1
    /\ now = 0
    /\ last = NoCall
    /\ reading = NoRead
    /\ InitAuth

\* ------------------------------------------------------------ create_team
\* first commit: the team row
create_team_insert(u) ==
    /\ nextTeam <= NumTeams
    /\ teams' = teams \cup {nextTeam}
    /\ team_rows' = [team_rows EXCEPT ![nextTeam] = Some(Team(1, 1))]
    /\ nextTeam' = nextTeam + 1
    /\ creating' = creating \cup {[team |-> nextTeam, user |-> u]}
    /\ UNCHANGED <<reading, regVars, codeVars, authVars, links, invitations, nextInv, now, last>>

\* second commit: the creator's link with role 3
create_team_link(c) ==
    /\ c \in creating
    /\ creating' = creating \ {c}
    /\ links' = links (+) SetToBag({UserTeamLink(c.user, c.team, 3)})
    /\ last' = Call("create_team", "OK", c.user, c.team, 0, 3, 0, None, None, 0)
    /\ UNCHANGED <<reading, regVars, codeVars, authVars, teams, team_rows, nextTeam, invitations, nextInv, now>>

\* ------------------------------------------------------------ update_team
ReqUser(u, r) == [user_id |-> u, role_id |-> r]
ReqUsers == {ReqUser(u, r) : u \in Users, r \in Roles}
ReqLists == UNION {[1..n -> ReqUsers] : n \in 0..MaxReqUsers}

RECURSIVE ReqBag(_, _)
ReqBag(req_users, t) ==
    IF req_users = <<>> THEN EmptyBag
    ELSE SetToBag({UserTeamLink(Head(req_users).user_id, t, Head(req_users).role_id)})
         (+) ReqBag(Tail(req_users), t)

\* a gate that lets every member through
can_update_team_any_member(user_role) == user_role # None
\* crud.update_team's gate: not (not user_role or user_role.role not in [2, 3])
can_update_team(user_role) == user_role # None /\ user_role[1] \in {2, 3}

\* crud.update_team with request = UpdateTeamRequest(team_id = t, title,
\* status_id, users = req_users); .first() takes any one of the caller's links
update_team(caller, t, title, status_id, req_users) ==
    \E user_role \in get_user_role_in_team(caller, t) :
        LET Refused(outcome) ==
                Call("update_team", outcome, caller, t, 0, 0, 0, user_role, None, 0)
            \* the request that was applied is kept with its answer
            Done(outcome) ==
                [Refused(outcome)
                     EXCEPT !.req = Some([title |-> title, status_id |-> status_id,
                                          users |-> req_users])]
        IN
        IF ~can_update_team(user_role)
        THEN /\ last' = Refused("Forbidden")
             /\ UNCHANGED <<reading, regVars, codeVars, authVars, teams, team_rows, nextTeam, creating, links, invitations, nextInv, now>>
        ELSE IF t \notin teams
        THEN /\ last' = Refused("None")
             /\ UNCHANGED <<reading, regVars, codeVars, authVars, teams, team_rows, nextTeam, creating, links, invitations, nextInv, now>>
        ELSE /\ team_rows' = [team_rows EXCEPT ![t] = Some(Team(title, status_id))]
             /\ links' = WithoutTeam(links, t) (+) ReqBag(req_users, t)
             /\ last' = Done("OK")
             /\ UNCHANGED <<reading, regVars, codeVars, authVars, teams, nextTeam, creating, invitations, nextInv, now>>

\* ------------------------------------------------------------ delete_team
\* a gate that lets admins through as well
can_delete_team_admin(user_role) == user_role # None /\ user_role[1] \in {2, 3}
\* crud.delete_team's gate: not (not user_role or user_role.role != 3)
can_delete_team(user_role) == user_role # None /\ user_role[1] = 3

\* crud.delete_team: DELETE of the row of teams; the rows of user_team_links
\* go with it (ForeignKey("teams.id", ondelete="CASCADE"))
delete_team(caller, t) ==
    \E user_role \in get_user_role_in_team(caller, t) :
        IF ~can_delete_team(user_role)
        THEN /\ last' = Call("delete_team", "Forbidden", caller, t, 0, 0, 0,
                             user_role, None, 0)
             /\ UNCHANGED <<reading, regVars, codeVars, authVars, teams, team_rows, nextTeam, creating, links, invitations, nextInv, now>>
        ELSE /\ teams' = teams \ {t}
             /\ team_rows' = [team_rows EXCEPT ![t] = None]
             /\ links' = WithoutTeam(links, t)
             /\ last' = Call("delete_team", "OK", caller, t, 0, 0, 0, user_role, None, 0)
             /\ UNCHANGED <<reading, regVars, codeVars, authVars, nextTeam, creating, invitations, nextInv, now>>

\* --------------------------------------------------------------- get_team
\* crud.get_team: None without the row of teams, else its columns and one
\* {user_id, role_id} entry per link of the team
get_team(t) ==
    IF t \notin teams THEN None
    ELSE Some([team_id |-> t,
               title |-> team_rows[t][1].title,
               status_id |-> team_rows[t][1].status_id,
               users |-> [e \in {ReqUser(l.user, l.role) : l \in LinksOfTeam(t)} |->
                             CopiesIn(UserTeamLink(e.user_id, t, e.role_id), links)]])

\* the {user_id, role_id} entries of the links of a team, with their numbers
TeamUsers(t) ==
    [e \in {ReqUser(l.user, l.role) : l \in LinksOfTeam(t)} |->
        CopiesIn(UserTeamLink(e.user_id, t, e.role_id), links)]

\* crud.get_team, its first statement: select(Team).where(Team.id == team_id)
\* and the return of None without a row. The statements of one request read
\* the store one after the other, each what is committed when it runs.
\* before: the member list the store held at the first statement.
get_team_select_team(t) ==
    /\ reading.pc # "links"
    /\ reading' = IF t \notin teams
                  THEN [NoRead EXCEPT !.pc = "none", !.team = t]
                  ELSE [pc |-> "links", team |-> t, row |-> team_rows[t],
                        before |-> Some(TeamUsers(t)), users |-> None]
    /\ UNCHANGED <<regVars, codeVars, authVars, teams, team_rows, nextTeam, creating, links,
                   invitations, nextInv, now, last>>

\* crud.get_team, its second statement:
\* select(UserTeamLink).where(UserTeamLink.team_id == team_id), and team_data
get_team_select_links ==
    /\ reading.pc = "links"
    /\ reading' = [reading EXCEPT !.pc = "done",
                                  !.users = Some(TeamUsers(reading.team))]
    /\ UNCHANGED <<regVars, codeVars, authVars, teams, team_rows, nextTeam, creating, links,
                   invitations, nextInv, now, last>>

\* ---------------------------------------------------- get_teams_by_user_id
\* crud.get_teams_by_user_id: teams joined with user_team_links, filtered to
\* the links of user_id, grouped by (Team.id, UserTeamLink.role); count(user_id)
\* counts the rows of each group, all of them links of user_id
get_teams_by_user_id(user_id) ==
    {[team_id |-> l.team,
      title |-> team_rows[l.team][1].title,
      status_id |-> team_rows[l.team][1].status_id,
      amount_of_users |-> CopiesIn(l, links),
      my_role_id |-> l.role] :
         l \in {k \in LinkRows : k.user = user_id /\ k.team \in teams}}

\* ------------------------------------------------------- create_invitation
\* crud.create_invitation: inserts the row, created_dt = datetime.now();
\* is_active and users_accepted take the column defaults. It checks nothing.
create_invitation(t, r, u, ttl) ==
    /\ nextInv <= MaxInvitations
    /\ invitations' = [invitations EXCEPT ![nextInv] = Some(Invitation(t, r, u, ttl, now))]
    /\ nextInv' = nextInv + 1
    /\ last' = Call("create_invitation", "OK", u, t, 0, r, nextInv, None, None, 0)
    /\ UNCHANGED <<reading, regVars, codeVars, authVars, teams, team_rows, nextTeam, creating, links, now>>

\* POST /team/invitation
create_team_invitation(caller, t, r, ttl) ==
    \E user_role \in get_user_role_in_team(caller, t) :
        LET a == AttrRole(user_role) IN
        IF a.raises
        THEN /\ last' = Call("create_team_invitation", "AttributeError", caller, t, 0, r, 0,
                             user_role, None, 0)
             /\ UNCHANGED <<reading, regVars, codeVars, authVars, teams, team_rows, nextTeam, creating, links, invitations, nextInv, now>>
        ELSE IF a.value = None \/ a.value[1] <= 2
        THEN /\ last' = Call("create_team_invitation", "Forbidden", caller, t, 0, r, 0,
                             user_role, None, 0)
             /\ UNCHANGED <<reading, regVars, codeVars, authVars, teams, team_rows, nextTeam, creating, links, invitations, nextInv, now>>
        ELSE /\ nextInv <= MaxInvitations
             /\ invitations' = [invitations EXCEPT
                                   ![nextInv] = Some(Invitation(t, r, caller, ttl, now))]
             /\ nextInv' = nextInv + 1
             /\ last' = Call("create_team_invitation", "OK", caller, t, 0, r, nextInv,
                             user_role, None, 0)
             /\ UNCHANGED <<reading, regVars, codeVars, authVars, teams, team_rows, nextTeam, creating, links, now>>

\* crud.add_user_to_team: inserts the link, whatever links exist
add_user_to_team(b, u, t, r) == b (+) SetToBag({UserTeamLink(u, t, r)})

\* GET /team/invitation/{invitation_id}
accept_team_invitation(caller, i) ==
    LET invitation == get_invitation_by_id(i) IN
    IF invitation = None
    THEN /\ last' = Call("accept_team_invitation", "NotFound", caller, 0, 0, 0, i,
                         None, None, 0)
         /\ UNCHANGED <<reading, regVars, codeVars, authVars, teams, team_rows, nextTeam, creating, links, invitations, nextInv, now>>
    ELSE
    LET inv == invitation[1] IN
    \E user_role \in get_user_role_in_team(caller, inv.team_id) :
        LET a == AttrRole(user_role)
            Done(outcome) == Call("accept_team_invitation", outcome, caller, inv.team_id,
                                  0, inv.role_id, i, user_role, None, Age(inv))
        IN
        IF Age(inv) > inv.ttl_sec
        THEN /\ last' = Done("Expired")
             /\ UNCHANGED <<reading, regVars, codeVars, authVars, teams, team_rows, nextTeam, creating, links, invitations, nextInv, now>>
        ELSE IF ~inv.is_active
        THEN /\ last' = Done("NotActive")
             /\ UNCHANGED <<reading, regVars, codeVars, authVars, teams, team_rows, nextTeam, creating, links, invitations, nextInv, now>>
        ELSE IF a.raises
        THEN /\ last' = Done("AttributeError")
             /\ UNCHANGED <<reading, regVars, codeVars, authVars, teams, team_rows, nextTeam, creating, links, invitations, nextInv, now>>
        ELSE IF a.value # None
        THEN /\ last' = Done("AlreadyMember")
             /\ UNCHANGED <<reading, regVars, codeVars, authVars, teams, team_rows, nextTeam, creating, links, invitations, nextInv, now>>
        ELSE /\ links' = add_user_to_team(links, caller, inv.team_id, inv.role_id)
             /\ invitations' = [invitations EXCEPT
                   ![i] = Some([inv EXCEPT !.users_accepted = inv.users_accepted + 1])]
             /\ last' = Done("OK")
             /\ UNCHANGED <<reading, regVars, codeVars, authVars, teams, team_rows, nextTeam, creating, nextInv, now>>

\* PUT /team/invitation/{invitation_id}/toggle
toggle_invitation(caller, i) ==
    LET invitation == get_invitation_by_id(i) IN
    IF invitation = None
    THEN /\ last' = Call("toggle_invitation", "NotFound", caller, 0, 0, 0, i, None, None, 0)
         /\ UNCHANGED <<reading, regVars, codeVars, authVars, teams, team_rows, nextTeam, creating, links, invitations, nextInv, now>>
    ELSE
    LET inv == invitation[1] IN
    \E user_role \in get_user_role_in_team(caller, inv.team_id) :
        LET a == AttrRole(user_role)
            Done(outcome) == Call("toggle_invitation", outcome, caller, inv.team_id,
                                  0, 0, i, user_role, None, Age(inv))
        IN
        IF a.raises
        THEN /\ last' = Done("AttributeError")
             /\ UNCHANGED <<reading, regVars, codeVars, authVars, teams, team_rows, nextTeam, creating, links, invitations, nextInv, now>>
        ELSE IF a.value = None \/ a.value[1] <= 2
        THEN /\ last' = Done("Forbidden")
             /\ UNCHANGED <<reading, regVars, codeVars, authVars, teams, team_rows, nextTeam, creating, links, invitations, nextInv, now>>
        ELSE /\ invitations' = [invitations EXCEPT
                   ![i] = Some([inv EXCEPT !.is_active = ~inv.is_active])]
             /\ last' = Done("OK")
             /\ UNCHANGED <<reading, regVars, codeVars, authVars, teams, team_rows, nextTeam, creating, links, nextInv, now>>

\* GET /team/{team_id}/invitations: reads only
get_team_invitations(caller, t) ==
    \E user_role \in get_user_role_in_team(caller, t) :
        LET a == AttrRole(user_role)
            Done(outcome) == Call("get_team_invitations", outcome, caller, t,
                                  0, 0, 0, user_role, None, 0)
        IN
        /\ last' = Done(IF a.raises THEN "AttributeError"
                        ELSE IF a.value = None \/ a.value[1] <= 2 THEN "Forbidden"
                        ELSE "OK")
        /\ UNCHANGED <<reading, regVars, codeVars, authVars, teams, team_rows, nextTeam, creating, links, invitations, nextInv, now>>

\* DELETE /team/invitation/{invitation_id}/delete, with crud.delete_invitation
delete_invitation_endpoint(caller, i) ==
    LET invitation == get_invitation_by_id(i) IN
    IF invitation = None
    THEN /\ last' = Call("delete_invitation", "NotFound", caller, 0, 0, 0, i, None, None, 0)
         /\ UNCHANGED <<reading, regVars, codeVars, authVars, teams, team_rows, nextTeam, creating, links, invitations, nextInv, now>>
    ELSE
    LET inv == invitation[1] IN
    \E user_role \in get_user_role_in_team(caller, inv.team_id) :
        LET a == AttrRole(user_role)
            Done(outcome) == Call("delete_invitation", outcome, caller, inv.team_id,
                                  0, 0, i, user_role, None, Age(inv))
        IN
        IF a.raises
        THEN /\ last' = Done("AttributeError")
             /\ UNCHANGED <<reading, regVars, codeVars, authVars, teams, team_rows, nextTeam, creating, links, invitations, nextInv, now>>
        ELSE IF a.value = None \/ a.value[1] <= 2
        THEN /\ last' = Done("Forbidden")
             /\ UNCHANGED <<reading, regVars, codeVars, authVars, teams, team_rows, nextTeam, creating, links, invitations, nextInv, now>>
        ELSE /\ invitations' = [invitations EXCEPT ![i] = None]
             /\ last' = Done("OK")
             /\ UNCHANGED <<reading, regVars, codeVars, authVars, teams, team_rows, nextTeam, creating, links, nextInv, now>>

\* a deactivation that also restarts the invitation's window
deactivate_invitation_by_id_renewing(i) ==
    LET invitation == get_invitation_by_id(i) IN
    /\ invitation # None
    /\ invitations' = [invitations EXCEPT
           ![i] = Some([invitation[1] EXCEPT !.is_active = FALSE, !.created_dt = now])]
    /\ last' = Call("deactivate_invitation_by_id", "OK", 0, invitation[1].team_id,
                    0, 0, i, None, None, 0)
    /\ UNCHANGED <<reading, regVars, codeVars, authVars, teams, team_rows, nextTeam, creating, links, nextInv, now>>
\* crud.deactivate_invitation_by_id
deactivate_invitation_by_id(i) ==
    LET invitation == get_invitation_by_id(i) IN
    IF invitation = None
    THEN /\ last' = Call("deactivate_invitation_by_id", "NotFound", 0, 0, 0, 0, i,
                         None, None, 0)
         /\ UNCHANGED <<reading, regVars, codeVars, authVars, teams, team_rows, nextTeam, creating, links, invitations, nextInv, now>>
    ELSE /\ invitations' = [invitations EXCEPT
               ![i] = Some([invitation[1] EXCEPT !.is_active = FALSE])]
         /\ last' = Call("deactivate_invitation_by_id", "OK", 0, invitation[1].team_id,
                         0, 0, i, None, None, 0)
         /\ UNCHANGED <<reading, regVars, codeVars, authVars, teams, team_rows, nextTeam, creating, links, nextInv, now>>

\* one row of the pair (u, t) with role r rewritten to role r2
SetRole(b, u, t, r, r2) ==
    (b (-) SetToBag({UserTeamLink(u, t, r)})) (+) SetToBag({UserTeamLink(u, t, r2)})

\* PUT /team/{team_id}/user/{user_id}
update_user_role_in_team_endpoint(caller, t, target, role_id) ==
    \E current_user_role \in get_user_role_in_team(caller, t) :
    \E user_role \in get_user_role_in_team(target, t) :
        LET cur == AttrRole(current_user_role)
            tgt == AttrRole(user_role)
            Done(outcome) == Call("update_user_role", outcome, caller, t, target,
                                  role_id, 0, current_user_role, user_role, 0)
            Reject(outcome) ==
                /\ last' = Done(outcome)
                /\ UNCHANGED <<reading, regVars, codeVars, authVars, teams, team_rows, nextTeam, creating, links, invitations, nextInv, now>>
        IN
        IF cur.raises THEN Reject("AttributeError")
        ELSE IF cur.value = None THEN Reject("Forbidden")
        ELSE IF cur.value[1] <= 2 \/ (user_role = Some(2) /\ cur.value[1] # 3)
        THEN Reject("Forbidden")
        ELSE IF user_role = None THEN Reject("NotFound")
        ELSE IF role_id = 3 /\ cur.value[1] # 3 THEN Reject("Forbidden")
        ELSE IF target = caller THEN Reject("Forbidden")
        ELSE IF tgt.raises THEN Reject("AttributeError")
        ELSE /\ links' =
                 LET demoted == IF role_id = 3 /\ tgt.value = Some(3)
                                THEN SetRole(links, caller, t, cur.value[1], 2)
                                ELSE links
                 IN SetRole(demoted, target, t, tgt.value[1], role_id)
             /\ last' = Done("OK")
             /\ UNCHANGED <<reading, regVars, codeVars, authVars, teams, team_rows, nextTeam, creating, invitations, nextInv, now>>

\* crud.delete_user_from_team(db, user_role), imported by views.py:15 and not
\* defined in crud.py: removes the target's membership link
delete_user_from_team(b, target, t, role) ==
    b (-) SetToBag({UserTeamLink(target, t, role)})

\* DELETE /team/{team_id}/user/{user_id}
delete_user_from_team_endpoint(caller, t, target) ==
    \E current_user_role \in get_user_role_in_team(caller, t) :
    \E user_role \in get_user_role_in_team(target, t) :
        LET cur == AttrRole(current_user_role)
            Done(outcome) == Call("delete_user_from_team", outcome, caller, t, target,
                                  0, 0, current_user_role, user_role, 0)
            Reject(outcome) ==
                /\ last' = Done(outcome)
                /\ UNCHANGED <<reading, regVars, codeVars, authVars, teams, team_rows, nextTeam, creating, links, invitations, nextInv, now>>
        IN
        IF cur.raises THEN Reject("AttributeError")
        ELSE IF cur.value = None THEN Reject("Forbidden")
        ELSE IF cur.value[1] <= 2 \/ (user_role = Some(2) /\ cur.value[1] # 3)
        THEN Reject("Forbidden")
        ELSE IF user_role = None THEN Reject("NotFound")
        ELSE IF target = caller THEN Reject("Forbidden")
        ELSE /\ links' = delete_user_from_team(links, target, t, user_role[1])
             /\ last' = Done("OK")
             /\ UNCHANGED <<reading, regVars, codeVars, authVars, teams, team_rows, nextTeam, creating, invitations, nextInv, now>>

\* the wall clock moves on
Tick ==
    \E p \in TimePoints :
        /\ p > now
        /\ now' = p
        /\ UNCHANGED <<reading, regVars, codeVars, authVars, teams, team_rows, nextTeam, creating, links, invitations, nextInv, last>>

\* ----------------------------------------------------------------- specs
\* teams and membership links
NextTeams ==
    \/ \E u \in Users : create_team_insert(u)
    \/ \E c \in creating : create_team_link(c)
    \* every team is created with title 1 and the column default status_id 1;
    \* an update asks for title 2 and status_id 0
    \/ \E u \in Users, t \in TeamIds, req_users \in ReqLists :
           update_team(u, t, 2, 0, req_users)
    \/ \E u \in Users, t \in TeamIds : delete_team(u, t)
    \/ \E u, v \in Users, t \in TeamIds, r \in Roles :
           update_user_role_in_team_endpoint(u, t, v, r)
    \/ \E u, v \in Users, t \in TeamIds : delete_user_from_team_endpoint(u, t, v)

Spec == InitTeams /\ [][NextTeams]_vars

\* readers of a team against its updates
NextRead ==
    \/ \E u \in Users : create_team_insert(u)
    \/ \E c \in creating : create_team_link(c)
    \* an update replaces the member list by a list of one entry
    \/ \E u \in Users, t \in TeamIds, req_users \in [1..1 -> ReqUsers] :
           update_team(u, t, 2, 0, req_users)
    \/ \E t \in TeamIds : get_team_select_team(t)
    \/ get_team_select_links

SpecRead == InitTeams /\ [][NextRead]_vars

\* the endpoints that take a role from the caller, with any integer as role
NextRoles ==
    \/ \E u \in Users : create_team_insert(u)
    \/ \E c \in creating : create_team_link(c)
    \/ \E u, v \in Users, t \in TeamIds, r \in RoleInputs :
           update_team(u, t, 2, 0, <<ReqUser(v, r)>>)
    \/ \E u, v \in Users, t \in TeamIds, r \in RoleInputs :
           update_user_role_in_team_endpoint(u, t, v, r)
    \/ \E u \in Users, t \in TeamIds, r \in RoleInputs : create_invitation(t, r, u, TtlSec)
    \/ \E u \in Users, t \in TeamIds, r \in RoleInputs :
           create_team_invitation(u, t, r, TtlSec)
    \/ \E u \in Users, i \in InvIds : accept_team_invitation(u, i)

SpecRoles == InitTeams /\ [][NextRoles]_vars

\* invitations against the wall clock
NextInvite ==
    \/ \E u \in Users : create_team_insert(u)
    \/ \E c \in creating : create_team_link(c)
    \/ \E u \in Users, t \in TeamIds, r \in Roles : create_invitation(t, r, u, TtlSec)
    \/ \E u \in Users, t \in TeamIds, r \in Roles : create_team_invitation(u, t, r, TtlSec)
    \/ \E i \in InvIds : deactivate_invitation_by_id(i)
    \/ \E u \in Users, i \in InvIds : accept_team_invitation(u, i)
    \/ \E u \in Users, i \in InvIds : toggle_invitation(u, i)
    \/ \E u \in Users, t \in TeamIds : get_team_invitations(u, t)
    \/ \E u \in Users, i \in InvIds : delete_invitation_endpoint(u, i)
    \/ Tick

SpecInvite == InitTeams /\ [][NextInvite]_vars

\* concurrent logins
NextRefresh ==
    \/ \E u \in Accounts : create_user(u)
    \/ \E u \in Accounts : update_user_status(u, 1)
    \/ \E u \in Accounts, new_password, current_password \in Passwords :
           update_user_settings(u, None, Some(new_password), Some(current_password))
    \/ \E r \in Requests, u \in Accounts, password \in Passwords :
           login_authenticate(r, u, password)
    \/ \E r \in Requests : login_read_old(r)
    \/ \E r \in Requests : login_delete_old(r)
    \/ \E r \in Requests : login_insert_new(r)

SpecRefresh == InitTeams /\ [][NextRefresh]_vars

\* logins one after the other, against the wall clock
NextSequential ==
    \/ \E u \in Accounts : create_user(u)
    \/ \E r \in Requests, u \in Accounts, password \in Passwords :
           login_sequential(r, u, password)
    \/ \E r \in Requests : login_read_old(r)
    \/ \E r \in Requests : login_delete_old(r)
    \/ \E r \in Requests : login_insert_new(r)
    \/ SessionTick

SpecSequential == InitTeams /\ [][NextSequential]_vars

\* protected requests through the session resolver, with the logins that
\* issue the refresh tokens running beside them
SessionRequests == 1..NumSessionLogins

NextSession ==
    \/ \E u \in Accounts : create_user(u)
    \/ \E u \in Accounts, status_id \in {-1, 1} : update_user_status(u, status_id)
    \/ \E r \in SessionRequests, u \in Accounts : login_authenticate(r, u, 1)
    \/ \E r \in SessionRequests : login_read_old(r)
    \/ \E r \in SessionRequests : login_delete_old(r)
    \/ \E r \in SessionRequests : login_insert_new(r)
    \/ \E token \in RequestTokens, verify \in BOOLEAN : get_current_user(token, verify)
    \/ SessionTick

SpecSession == InitTeams /\ [][NextSession]_vars

\* verification codes: issue, verify, password reset
NextCodes ==
    \/ \E u \in Accounts : create_user(u)
    \/ \E q \in Issues, u \in Accounts, via \in {"verify_send", "reset_send"} :
           issue_read(q, u, via)
    \/ \E q \in Issues : issue_write(q)
    \/ \E u \in Accounts, code \in Codes : verify_user(u, code)
    \/ \E code \in Codes, new_password \in Passwords : reset_password(code, new_password)
    \/ CodeTick

SpecCodes == InitTeams /\ [][NextCodes]_vars

\* email change of verified users
NextSettings ==
    \/ \E u \in Accounts : create_user(u)
    \/ \E u \in Accounts : update_user_status(u, 1)
    \/ \E q \in Issues, u \in Accounts : issue_read(q, u, "verify_send")
    \/ \E q \in Issues : issue_write(q)
    \/ \E u \in Accounts, email \in Emails :
           update_user_settings(u, Some(email), None, None)
    \/ \E u \in Accounts, code \in Codes : confirm_new_email(u, code)
    \/ CodeTick

SpecSettings == InitTeams /\ [][NextSettings]_vars

\* ================================================================ claims
\* registration, settings login change, email change request and confirmation
NextRegister ==
    \/ \E q \in Registrations, login \in Logins, email \in Emails :
           register_user(q, login, email)
    \/ \E q \in Registrations : register_create_user(q)
    \/ \E u \in Accounts : update_user_status(u, 1)
    \/ \E q \in Registrations, u \in Accounts, login \in Logins :
           update_user_login(q, u, login)
    \/ \E q \in Registrations : update_user_login_commit(q)
    \/ \E u \in Accounts, email \in Emails :
           update_user_settings(u, Some(email), None, None)
    \/ \E u \in Accounts, code \in Codes : confirm_new_email(u, code)

SpecRegister == InitTeams /\ [][NextRegister]_vars

LastIs(op) == last.op = op
RolesOf(u, t) == get_user_role_in_team(u, t)

\* C1: once two or more concurrent refresh-token issue calls for a user have
\* all completed, exactly one refresh-token row exists for that user.
LoginsOf(u) == {r \in Requests : logins[r].user = u /\ logins[r].pc = "done"}
C1_AllCompleted ==
    \A r \in Requests : logins[r].pc \in {"idle", "invalid_credentials", "error", "done"}
C1_OneRefreshTokenAfterConcurrentIssue ==
    C1_AllCompleted =>
        \A u \in Accounts :
            Cardinality(LoginsOf(u)) >= 2 => Cardinality(TokensOf(u)) = 1

\* C2: after the owner of a team calls updateMemberRole to give another
\* member, not an owner, role 3, the team has exactly one member with role 3
\* and the caller holds role 2.
C2_PromotionCase ==
    /\ LastIs("update_user_role")
    /\ last.callerRole = Some(3)
    /\ last.role = 3
    /\ last.target # last.caller
    /\ last.targetRole \in {Some(0), Some(1), Some(2)}
C2_OwnerPromotionLeavesOneOwner ==
    C2_PromotionCase =>
        /\ OwnerCount(last.team) = 1
        /\ RolesOf(last.caller, last.team) = {Some(2)}

\* C3: every existing team whose creation has completed has exactly one
\* member with role 3.
C3_ExactlyOneOwnerPerTeam ==
    \A t \in teams :
        (\A c \in creating : c.team # t) => OwnerCount(t) = 1

\* C4: there is at most one membership link per (user, team) pair.
C4_AtMostOneLinkPerPair ==
    \A u \in Users, t \in TeamIds : LinkCount(u, t) <= 1

\* C5: an admin (role 2) calling updateMemberRole on another admin (role 2)
\* receives Forbidden and no membership link changes.
C5_AdminOnAdminCase ==
    /\ LastIs("update_user_role")
    /\ last.callerRole = Some(2)
    /\ last.targetRole = Some(2)
    /\ last.target # last.caller
C5_AdminOnAdminForbidden ==
    C5_AdminOnAdminCase => last.outcome = "Forbidden"

\* C6: an admin (role 2) calling updateMemberRole on a different member with
\* role 0 and a new role below 3 succeeds, and the target then holds the
\* requested role.
C6_AdminOnReaderCase ==
    /\ LastIs("update_user_role")
    /\ last.callerRole = Some(2)
    /\ last.targetRole = Some(0)
    /\ last.target # last.caller
    /\ last.role < 3
C6_AdminOnReaderSucceeds ==
    C6_AdminOnReaderCase =>
        /\ last.outcome = "OK"
        /\ RolesOf(last.target, last.team) = {Some(last.role)}

LastInv == invitations[last.inv][1]

\* C7: an invitation with ttl_sec = 60 is accepted by a non-member 59 s after
\* its creation when it is active, and an attempt 61 s after its creation
\* fails with the expiry error whether the invitation is active or not.
C7_AcceptCase ==
    /\ LastIs("accept_team_invitation")
    /\ last.outcome # "NotFound"
    /\ last.team \in teams
    /\ \A c \in creating : c.team # last.team
    /\ LastInv.ttl_sec = TtlSec
C7_InvitationWindow ==
    C7_AcceptCase =>
        /\ (last.age = TtlSec - 1 /\ LastInv.is_active /\ last.callerRole = None)
               => last.outcome = "OK"
        /\ last.age = TtlSec + 1 => last.outcome = "Expired"

\* C8: a call of acceptInvitation succeeds only for an existing, active,
\* unexpired invitation and a caller without a role in its team, and a call
\* that succeeds leaves the caller with one link, at the granted role.
C8_AcceptSucceedsOnlyIf ==
    (LastIs("accept_team_invitation") /\ last.outcome = "OK") =>
        /\ LastInv.is_active
        /\ last.age <= LastInv.ttl_sec
        /\ last.callerRole = None
        /\ RolesOf(last.caller, last.team) = {Some(LastInv.role_id)}
        /\ LinkCount(last.caller, last.team) = 1
C8_AcceptSucceeded ==
    LastIs("accept_team_invitation") /\ last.outcome = "OK"

\* C9: a user who is already a member of the invitation's team and accepts an
\* active, unexpired invitation is refused with "already a member".
C9_MemberAcceptCase ==
    /\ LastIs("accept_team_invitation")
    /\ last.outcome # "NotFound"
    /\ last.callerRole # None
    /\ LastInv.is_active
    /\ last.age <= LastInv.ttl_sec
C9_MemberAcceptRefused ==
    C9_MemberAcceptCase => last.outcome = "AlreadyMember"

\* the resolver answered a request whose access token was validly signed but
\* expired, whose subject existed with status 1 (verified, not banned) and had
\* a live refresh-token row
C10_RenewalCase ==
    /\ reply.outcome # "none"
    /\ reply.token = "expired"
    /\ reply.status = Some(1)
    /\ reply.live

\* C10: a protected request with an expired but validly signed access token,
\* an existing verified non-banned subject and a live refresh token for that
\* subject is authorized in the same request, and the response cookie carries
\* a new signed access token for the same subject.
C10_ExpiredTokenRenewed ==
    C10_RenewalCase =>
        /\ reply.outcome = "Authorized"
        /\ reply.user = reply.sub
        /\ reply.cookie # None
        /\ reply.cookie[1].sub = reply.sub
        /\ reply.cookie[1].sig

\* the resolver answered a request whose access token was validly signed but
\* expired and whose subject exists
C11_ExpiredCase ==
    /\ reply.outcome # "none"
    /\ reply.token = "expired"
    /\ reply.status # None

\* C11: a request with an expired access token is authorized only when the
\* subject has a live refresh-token row at that moment; when the subject has
\* none, the request fails with "Refresh token not found or expired" and no
\* new access token is issued.
C11_RenewalNeedsLiveRefreshToken ==
    C11_ExpiredCase =>
        /\ reply.outcome = "Authorized" => reply.live
        /\ ~reply.live => (reply.outcome = "NoRefreshToken" /\ reply.cookie = None)

\* C12: on the valid-token path and on the renewal path a banned subject is
\* never authorized and an unverified subject is authorized only on a
\* verify-exempt request; a request that reaches the status gate is answered
\* "User is banned", respectively "User is not verified".
C12_StatusGateOnEveryPath ==
    reply.outcome # "none" =>
        /\ reply.status = Some(-1) =>
               /\ reply.outcome # "Authorized"
               /\ reply.token = "valid" => reply.outcome = "Banned"
        /\ (reply.status = Some(0) /\ ~reply.verify) =>
               /\ reply.outcome # "Authorized"
               /\ reply.token = "valid" => reply.outcome = "NotVerified"
        /\ reply.outcome = "Banned" => reply.status = Some(-1)
        /\ reply.outcome = "NotVerified" => (reply.status = Some(0) /\ ~reply.verify)
C12_BannedOnRenewal ==
    /\ reply.token = "expired"
    /\ reply.live
    /\ reply.status = Some(-1)
    /\ reply.outcome = "Banned"

\* C13: a protected request without an access token fails with "No access
\* token provided", with no user or refresh-token lookup made and no cookie set.
C13_NoTokenRejected ==
    (reply.outcome # "none" /\ reply.token = "none") =>
        /\ reply.outcome = "NoToken"
        /\ reply.lookups = 0
        /\ reply.cookie = None
C13_NoTokenRequest ==
    /\ reply.token = "none"
    /\ reply.outcome = "NoToken"
    /\ refresh_tokens # {}

\* C14: a login attempt for an unknown account and one for a known account
\* with a wrong password end the same way, with "Invalid credentials".
C14_FailedLoginsIndistinguishable ==
    \A r \in Requests :
        (logins[r].pc # "idle" /\ (~logins[r].known \/ logins[r].wrong)) =>
            logins[r].pc = "invalid_credentials"

\* a confirmation request presented a code that rows of the user hold
C15_LookupCase ==
    /\ vcall.op \in {"verify", "reset_password"}
    /\ vcall.ages # {}

\* C15: a code is accepted by the lookup less than 15 minutes after its
\* creation, and more than 15 minutes after it the lookup finds nothing, as
\* for a wrong code.
C15_CodeWindow ==
    C15_LookupCase =>
        /\ (\A a \in vcall.ages : a < CodeWindow) => vcall.outcome = "OK"
        /\ (\A a \in vcall.ages : a > CodeWindow) => vcall.outcome = "InvalidOrExpired"

\* C16: after any code requests of a user, concurrent ones included, the
\* user has at most one verification-code row, and a code that the user's
\* row no longer holds is not accepted.
C16_OneCodeRowPerUser ==
    /\ \A u \in Accounts : Cardinality(CodesOf(u)) <= 1
    /\ (vcall.op \in {"verify", "reset_password"} /\ vcall.ages = {}) => vcall.outcome # "OK"

\* C17: a code request for a user who already has a row leaves the row with
\* the new code and with the time of the request as its creation time.
C17_ReplaceRestartsWindow ==
    (vcall.op \in {"verify_send", "reset_send"} /\ vcall.existing) =>
        \A c \in CodesOf(vcall.user) : c.code = vcall.code /\ c.created_dt = vcall.at

\* C19: the status of a user goes from 0 to 1 only in a verify call of that
\* user with a code that a row of the user holds, unexpired; a verify call
\* with a wrong or expired code fails with "Invalid or expired code".
C19_VerifiedOnlyByCode ==
    /\ [][\A u \in Accounts :
             (users[u] = Some(0) /\ users'[u] = Some(1)) =>
                 /\ vcall'.op = "verify" /\ vcall'.user = u /\ vcall'.outcome = "OK"
                 /\ \E a \in vcall'.ages : a < CodeWindow]_vars
    /\ [](vcall.op = "verify" /\ (\A a \in vcall.ages : a > CodeWindow)
              => vcall.outcome = "InvalidOrExpired")

C21_UniqueLoginAndEmail ==
    /\ \A u, v \in Accounts :
           (u # v /\ users[u] # None /\ users[v] # None) =>
               /\ user_logins[u] # user_logins[v]
               /\ emails[u] # emails[v]
    /\ rcall.taken => (rcall.status = 400 /\ ~rcall.changed)


\* C22: the password column of every row of users holds an output of the hash
\* function, never the plaintext a caller supplied
C22_PasswordStoredHashed ==
    \A u \in Accounts : passwords[u] # None => passwords[u][1].hashed

\* C23: create_team_invitation succeeds only for a caller with role 3 in the
\* team; a non-member and a member with role 0, 1 or 2 are answered Forbidden
\* and no invitation row is created
C23_InviteOwnerOnly ==
    LastIs("create_team_invitation") =>
        /\ last.outcome = "OK" => last.callerRole = Some(3)
        /\ last.callerRole # Some(3) => (last.outcome = "Forbidden" /\ last.inv = 0)

C24_Ops == {"get_team_invitations", "toggle_invitation", "delete_invitation"}

\* C24: listing, toggling and deleting an invitation is permitted for a caller
\* with role 2 or 3 in the invitation's team and answered Forbidden for a
\* caller with role 0 or 1 and for a non-member
C24_InvitationAdminGate ==
    (last.op \in C24_Ops /\ last.outcome # "NotFound") =>
        IF last.callerRole \in {Some(2), Some(3)}
        THEN last.outcome = "OK"
        ELSE last.outcome = "Forbidden"

\* C25: update_user_role_in_team_endpoint answers Forbidden to a non-member
\* caller, to a caller changing their own role and to a caller other than the
\* owner asking for role 3, and NotFound for a target with no link in the team
C25_RoleUpdateRejections ==
    LastIs("update_user_role") =>
        /\ last.callerRole = None => last.outcome = "Forbidden"
        /\ (last.callerRole # None /\ last.target = last.caller)
               => last.outcome = "Forbidden"
        /\ (last.callerRole \notin {None, Some(3)} /\ last.role = 3)
               => last.outcome = "Forbidden"
        /\ (last.callerRole = Some(3) /\ last.targetRole = None)
               => last.outcome = "NotFound"

MembershipOf(b, t) == b (-) WithoutTeam(b, t)

\* C27: update_team changes a team only for a caller who holds role 2 or 3 in
\* it; any other caller is answered Forbidden and title, status and links stay
\* as they were; after a successful update the team's links are exactly the
\* request's list and its title and status the request's
C27_UpdateTeamGate ==
    [][(last'.op = "update_team" /\ last' # last) =>
           LET t == last'.team
               holds == get_user_role_in_team(last'.caller, t) \cap {Some(2), Some(3)} # {}
           IN  /\ ~holds => /\ last'.outcome = "Forbidden"
                            /\ UNCHANGED <<teams, team_rows, links>>
               /\ last'.outcome = "OK" =>
                      /\ holds
                      /\ MembershipOf(links', t) = ReqBag(last'.req[1].users, t)
                      /\ team_rows'[t] =
                             Some(Team(last'.req[1].title, last'.req[1].status_id))]_vars

\* an admin's update went through and replaced every link of the team,
\* the admin's own included
C27_AdminReplacedMembers ==
    /\ LastIs("update_team")
    /\ last.outcome = "OK"
    /\ last.callerRole = Some(2)
    /\ RolesOf(last.caller, last.team) = {None}
    /\ MembershipOf(links, last.team) # EmptyBag
    /\ team_rows[last.team] = Some(Team(2, 0))

\* C28: delete_team removes a team only for a caller who holds role 3 in it;
\* any other caller is answered Forbidden and nothing is deleted; after a
\* successful call the team is gone and no link references it
C28_DeleteTeamGate ==
    [][(last'.op = "delete_team" /\ last' # last) =>
           LET t == last'.team
               owner == Some(3) \in get_user_role_in_team(last'.caller, t)
           IN  /\ ~owner => /\ last'.outcome = "Forbidden"
                            /\ UNCHANGED <<teams, team_rows, links>>
               /\ last'.outcome = "OK" =>
                      /\ owner
                      /\ t \notin teams' /\ team_rows'[t] = None
                      /\ MembershipOf(links', t) = EmptyBag]_vars

\* the owner deleted a team: it is gone, and so are its links
C28_TeamDeleted ==
    /\ LastIs("delete_team")
    /\ last.outcome = "OK"
    /\ last.callerRole = Some(3)
    /\ last.team \notin teams
    /\ MembershipOf(links, last.team) = EmptyBag

\* C29: get_teams_by_user_id(u) has exactly one row per team u belongs to;
\* its amount_of_users is the number of links of that team, all members
\* counted, and its my_role_id is u's role in the team
C29_TeamListRows ==
    \A u \in Users :
        LET rows == get_teams_by_user_id(u) IN
        /\ \A t \in TeamIds :
               Cardinality({row \in rows : row.team_id = t})
                   = IF LinksOf(u, t) = {} THEN 0 ELSE 1
        /\ \A row \in rows :
               /\ row.amount_of_users = BagCardinality(MembershipOf(links, row.team_id))
               /\ Some(row.my_role_id) \in get_user_role_in_team(u, row.team_id)

\* user B, who had no link in the team, called accept_team_invitation within
\* the ttl on an active invitation for role 1 that another user A issued
C30_Scenario ==
    /\ LastIs("accept_team_invitation")
    /\ last.outcome # "NotFound"
    /\ invitations[last.inv] # None
    /\ invitations[last.inv][1].is_active
    /\ invitations[last.inv][1].inviting_user_id # last.caller
    /\ last.role = 1
    /\ last.age <= TtlSec
    /\ last.callerRole = None
    /\ RolesOf(invitations[last.inv][1].inviting_user_id, last.team) = {Some(3)}

\* C30: after A created team T1 and an invitation for role 1, and non-member B
\* accepted it within the ttl, get_team(T1) shows exactly two members, A with
\* role 3 and B with role 1
C30_InvitedMemberListed ==
    C30_Scenario =>
        /\ get_team(last.team) # None
        /\ get_team(last.team)[1].users =
               SetToBag({ReqUser(invitations[last.inv][1].inviting_user_id, 3),
                         ReqUser(last.caller, 1)})

\* C31: with the logins of a user one after the other, the step that completes
\* a login leaves exactly one refresh token row of that user in the store, the
\* one this login issued
C31_SequentialLoginReplacesToken ==
    [][\A r \in Requests :
           (logins[r].pc = "insert" /\ logins'[r].pc = "done") =>
               \E t \in refresh_tokens' :
                   /\ t.id = r
                   /\ {k \in refresh_tokens' : k.user_id = logins[r].user} = {t}]_vars

\* a user logged in twice and holds one row
C31_SecondLoginDone ==
    \E u \in Accounts :
        /\ Cardinality(LoginsOf(u)) = 2
        /\ Cardinality(TokensOf(u)) = 1

\* C32: for a user with one refresh token row, get_active_refresh_token
\* returns the row if and only if now <= created_dt + ttl_sec, and for an
\* expired row it returns None without raising
C32_GetActiveInclusive ==
    \A u \in Accounts :
        \A t \in TokensOf(u) :
            TokensOf(u) = {t} =>
                \A got \in get_active_refresh_token(u) :
                    /\ ~got.raises
                    /\ got.row = IF now <= t.created_dt + t.ttl_sec THEN Some(t) ELSE None

\* a login completes / the resolver answers a request with a renewed cookie
C33_LoginCompletes(r) == logins[r].pc = "insert" /\ logins'[r].pc = "done"
C33_Renewal == reply' # reply /\ reply'.outcome = "Authorized" /\ reply'.cookie # None

\* C33: a refresh token row of the subject is created when the user logs in
\* and when the resolver renews an expired access token
C33_RecordCreatedOnRenewal ==
    [][/\ \A r \in Requests :
              C33_LoginCompletes(r) =>
                  \E t \in refresh_tokens' \ refresh_tokens : t.user_id = logins[r].user
       /\ C33_Renewal =>
              \E t \in refresh_tokens' \ refresh_tokens : t.user_id = reply'.user]_vars

\* C33, amended: a refresh token row of the subject is created when the user
\* logs in; a request the resolver answers, renewals included, leaves the rows
\* of refresh_tokens as they were
C33_RecordCreatedAtLoginOnly ==
    [][/\ \A r \in Requests :
              C33_LoginCompletes(r) =>
                  \E t \in refresh_tokens' \ refresh_tokens : t.user_id = logins[r].user
       /\ reply' # reply => refresh_tokens' = refresh_tokens]_vars

\* the resolver renewed an expired access token of a verified user
C33_Renewed ==
    /\ reply.outcome = "Authorized"
    /\ reply.token = "expired"
    /\ reply.cookie # None
    /\ TokensOf(reply.user) # {}

\* C34: a request whose token does not verify under the secret key is answered
\* "Invalid token": no store lookup is made and no cookie is set, whether or
\* not the token is expired and its claimed subject holds a live refresh token
C34_TamperedTokenRejected ==
    reply.token = "bad_signature" =>
        /\ reply.outcome = "InvalidToken"
        /\ reply.cookie = None
        /\ reply.lookups = 0

\* a tampered token naming a verified user with a live refresh token was
\* presented after the lifetime of an access token had passed
C34_TamperedWithLiveSubject ==
    /\ reply.token = "bad_signature"
    /\ reply.status = Some(1)
    /\ reply.live
    /\ now > AccessTtl

\* C35: a reset_password call with a code that a row of the user holds,
\* unexpired, succeeds, and from then on login with the new password succeeds
\* and login with any other password is answered "Invalid credentials"
C35_ResetTakesEffect ==
    [][\A code \in Codes, P \in Passwords, u \in Accounts :
           (/\ reset_password(code, P)
            /\ get_user_by_code(code) = {u}
            /\ \E c \in CodesOf(u) : c.code = code /\ c.created_dt > now - CodeWindow)
           => /\ vcall'.outcome = "OK"
              /\ authenticate_user(u, P)' = "OK"
              /\ \A old \in Passwords \ {P} :
                     authenticate_user(u, old)' = "InvalidCredentials"]_vars

C37_CreateTeamAtomic ==
    \A c \in creating :
        get_team(c.team) # None =>
            ReqUser(c.user, 3) \in DOMAIN get_team(c.team)[1].users

\* C38: what a get_team call returns is the team as one commit left it: the
\* title, the status and the member list the store held when the call began,
\* or those it holds when the call ends
C38_ReaderSeesOneCommit ==
    [][(reading.pc = "links" /\ reading'.pc = "done") =>
           \/ reading'.users = reading.before
           \/ team_rows[reading.team] = reading.row]_vars

\* C39: the role of every row of user_team_links is one of 0, 1, 2, 3
C39_LinkRolesInRange ==
    \A l \in BagToSet(links) : l.role \in Roles

C40_Expired(inv) == Age(inv) > inv.ttl_sec

\* C40: no step changes the created_dt or the ttl_sec of an invitation row or
\* removes the row other than a delete_invitation call; an expired invitation
\* stays expired while its row exists, and an accept call for it is answered
\* "Invitation has expired" and adds no link, whatever its active flag
C40_ExpiredNeverAccepted ==
    [][\A i \in InvIds :
           invitations[i] # None =>
               LET inv == invitations[i][1] IN
               /\ invitations'[i] # None =>
                      /\ invitations'[i][1].created_dt = inv.created_dt
                      /\ invitations'[i][1].ttl_sec = inv.ttl_sec
                      /\ C40_Expired(inv) =>
                             now' - invitations'[i][1].created_dt > invitations'[i][1].ttl_sec
               /\ invitations'[i] = None =>
                      (last'.op = "delete_invitation" /\ last'.inv = i)
               /\ (/\ C40_Expired(inv)
                   /\ last' # last
                   /\ last'.op = "accept_team_invitation"
                   /\ last'.inv = i)
                  => (last'.outcome = "Expired" /\ links' = links)]_vars

\* an accept call for an expired invitation whose flag had been switched off
\* was answered, and the row is still there
C40_ExpiredInactiveRefused ==
    /\ LastIs("accept_team_invitation")
    /\ last.outcome = "Expired"
    /\ invitations[last.inv] # None
    /\ ~invitations[last.inv][1].is_active
    /\ C40_Expired(invitations[last.inv][1])
====
